---- MODULE Spec2Model ----
(***************************************************************************)
(* A model of the mini social network backend (axum handlers over a        *)
(* PostgreSQL store).  The state is the three tables of db.rs plus, for    *)
(* every request slot, the position of the handler that runs in it.  An    *)
(* action is one store statement together with the handler code that runs  *)
(* up to the next await: a handler is atomic between two statements        *)
(* because the handlers share nothing but the store.                       *)
(*                                                                         *)
(* Not modelled: created_at (a timestamp no handler reads) and the loss of  *)
(* the store connection.                                                   *)
(***************************************************************************)
EXTENDS Integers, FiniteSets, Sequences, TLC

\* Number of request slots: requests that can be in flight at the same time.
MaxCalls == 2

Procs == 1..MaxCalls
UserIds == {"u1", "u2", "u3"}
PostIds == {"p1", "p2"}
Usernames == {"alice", "bob"}
Passwords == {"pw1", "pw2"}
Contents == {"hello"}
None == "none"

\* SystemTime::now() in seconds when the service starts.
Epoch == 1000000

\* The validity of a token: 24 * 3600 seconds.
Validity == 24 * 3600

\* The leeway of jsonwebtoken's Validation::default().
Leeway == 60

\* users, posts, likes: the tables.  calls: the request slots.  now: the
\* clock.  issued: the tokens the service has handed out.
VARIABLES users, posts, likes, calls, now, issued

vars == <<users, posts, likes, calls, now, issued>>

----------------------------------------------------------------------------
(* models.rs and auth.rs                                                   *)

User(id, username, password_hash) ==
    [id |-> id, username |-> username, password_hash |-> password_hash]

Post(id, user_id, content, likes_count) ==
    [id |-> id, user_id |-> user_id, content |-> content, likes_count |-> likes_count]

Like(post_id, user_id) == [post_id |-> post_id, user_id |-> user_id]

NoPost == Post(None, None, None, 0)

\* A token is the claims it carries and whether it decodes with a signature
\* made with JWT_SECRET.
Claims(sub, exp, signed) == [sub |-> sub, exp |-> exp, signed |-> signed]

NoToken == Claims(None, 0, FALSE)

create_jwt(user_id) == Claims(user_id, now + Validity, TRUE)

\* decode with Validation::default(): the signature, then exp against the
\* clock; a token is expired when exp < now - leeway.
verify_jwt(token) ==
    IF ~ token.signed
    THEN None
    ELSE IF token.exp < now - Leeway THEN None ELSE token.sub

\* bcrypt: the hash keeps the password it was made from and nothing else
\* that verify looks at.
hash(password) == <<"bcrypt", password>>

\* A variant that accepts every password.
verify_any_password(password, password_hash) == TRUE

verify(password, password_hash) == password_hash = hash(password)

----------------------------------------------------------------------------
(* The responses of handlers.rs                                            *)

Resp(status, error, token, post) ==
    [status |-> status, error |-> error, token |-> token, post |-> post]

Failure(status, error) == Resp(status, error, NoToken, NoPost)

NoResp == Failure(0, None)

DatabaseError == Failure(500, "Database error")
InvalidCredentials == Failure(401, "Invalid credentials")
MissingAuthorization == Failure(401, "Missing authorization header")
InvalidToken == Failure(401, "Invalid token")
PostNotFound == Failure(404, "Post not found")
NotFoundOrUnauthorized == Failure(404, "Post not found or unauthorized")
NotFoundOrAlreadyLiked == Failure(406, "Post not found or already liked")
TokenCreated(token) == Resp(201, None, token, NoPost)
TokenOk(token) == Resp(200, None, token, NoPost)
PostCreated(post) == Resp(201, None, NoToken, post)
PostOk(post) == Resp(200, None, NoToken, post)
NoContent == Resp(204, None, NoToken, NoPost)
LikeOk == Resp(200, None, NoToken, NoPost)

\* The Authorization header of a request: absent, a value without the
\* "Bearer " prefix, or "Bearer " and a token.
NoHeader == [kind |-> "missing", token |-> NoToken]
NoPrefix == [kind |-> "no_prefix", token |-> NoToken]
Bearer(token) == [kind |-> "bearer", token |-> token]

\* A token a client made up: the claims of u1, a signature of its own.
Forged == Claims("u1", Epoch + Validity, FALSE)

\* The headers a client can send: none, a token it made up, or a token the
\* service issued.
Headers ==
    {NoHeader, Bearer(Forged)} \cup {Bearer(t) : t \in issued}

\* The headers of the clients that send a token the service issued.
IssuedHeaders == {Bearer(t) : t \in issued}

\* Headers, and the two other ways to fail: no "Bearer " prefix, and a
\* string that is no token.
AllHeaders == Headers \cup {NoPrefix, Bearer(NoToken)}

extract_user_id(headers) ==
    IF headers.kind # "bearer"
    THEN [user_id |-> None, err |-> MissingAuthorization]
    ELSE IF verify_jwt(headers.token) = None
         THEN [user_id |-> None, err |-> InvalidToken]
         ELSE [user_id |-> verify_jwt(headers.token), err |-> NoResp]

----------------------------------------------------------------------------
(* db.rs: the queries                                                      *)

\* A variant that finds the post and does not look at its owner.
check_post_ownership_any_owner(post_id, user_id) ==
    \E p \in posts : p.id = post_id

check_post_ownership(post_id, user_id) ==
    \E p \in posts : p.id = post_id /\ p.user_id = user_id

check_post_exists(post_id) == \E p \in posts : p.id = post_id

\* A variant that never finds the row.
like_exists_never(post_id, user_id) == FALSE

like_exists(post_id, user_id) ==
    \E l \in likes : l.post_id = post_id /\ l.user_id = user_id

get_user_by_username(username) ==
    IF \E u \in users : u.username = username
    THEN CHOOSE u \in users : u.username = username
    ELSE User(None, None, hash(None))

\* A variant that looks the row up by the owner's id.
Database_get_post_by_user_id(id) ==
    IF \E p \in posts : p.user_id = id
    THEN CHOOSE p \in posts : p.user_id = id
    ELSE NoPost

Database_get_post(id) ==
    IF \E p \in posts : p.id = id
    THEN CHOOSE p \in posts : p.id = id
    ELSE NoPost

\* INSERT INTO users: the primary key and UNIQUE(username) reject the row.
Database_create_user_error(user) ==
    \E u \in users : u.id = user.id \/ u.username = user.username

\* INSERT INTO posts: the primary key and the reference to users(id).
Database_create_post_error(post) ==
    \/ \E p \in posts : p.id = post.id
    \/ ~ \E u \in users : u.id = post.user_id

\* A variant of the likes table without its primary key.
insert_like_error_no_key(post_id, user_id) ==
    \/ ~ check_post_exists(post_id)
    \/ ~ \E u \in users : u.id = user_id

\* INSERT INTO likes: PRIMARY KEY (post_id, user_id) and the two references.
insert_like_error(post_id, user_id) ==
    \/ Like(post_id, user_id) \in likes
    \/ ~ check_post_exists(post_id)
    \/ ~ \E u \in users : u.id = user_id

\* A variant that removes the like of the caller only (the caller of the
\* statement is the owner of the post).
deleted_likes_of_owner(id) ==
    {l \in likes : l.post_id = id /\ check_post_ownership(id, l.user_id)}

\* The rows that DELETE FROM likes WHERE post_id = $1 removes.
deleted_likes(id) == {l \in likes : l.post_id = id}

----------------------------------------------------------------------------
(* The request slots                                                       *)

Call(op, headers, username, password, content, id, user_id, pc, resp) ==
    [op |-> op, headers |-> headers, username |-> username, password |-> password,
     content |-> content, id |-> id, user_id |-> user_id, pc |-> pc, resp |-> resp]

Idle == Call(None, NoHeader, None, None, None, None, None, "idle", NoResp)

Done(c, resp) == [c EXCEPT !.pc = "done", !.resp = resp]

Init ==
    /\ users = {}
    /\ posts = {}
    /\ likes = {}
    /\ calls = [i \in Procs |-> Idle]
    /\ now = Epoch
    /\ issued = {}

\* The response of slot i has been sent; the slot takes the next request.
Release(i) ==
    /\ calls[i].pc = "done"
    /\ calls' = [calls EXCEPT ![i] = Idle]
    /\ UNCHANGED <<users, posts, likes, now, issued>>

\* The instants the clock is looked at after the start: around the end of
\* the validity of a token issued at the start, and around the end of its
\* leeway.
Instants ==
    {Epoch + Validity, Epoch + Validity + Leeway, Epoch + Validity + Leeway + 1}

\* Time passes.
Tick(t) ==
    /\ t > now
    /\ now' = t
    /\ UNCHANGED <<users, posts, likes, calls, issued>>

----------------------------------------------------------------------------
(* handlers.rs: register and login                                         *)

\* Uuid::new_v4(): an id no row has yet.
new_user_ids == UserIds \ {u.id : u \in users}
new_post_ids == PostIds \ {p.id : p \in posts}

register(i, username, password) ==
    /\ calls[i].pc = "idle"
    /\ \E id \in new_user_ids :
        LET user == User(id, username, hash(password))
            c == Call("register", NoHeader, username, password, None, None, None, "idle", NoResp)
        IN  IF Database_create_user_error(user)
            THEN /\ calls' = [calls EXCEPT ![i] = Done(c, DatabaseError)]
                 /\ users' = users
                 /\ issued' = issued
            ELSE /\ calls' = [calls EXCEPT ![i] = Done(c, TokenCreated(create_jwt(user.id)))]
                 /\ users' = users \cup {user}
                 /\ issued' = issued \cup {create_jwt(user.id)}
    /\ UNCHANGED <<posts, likes, now>>

\* A variant that tells a caller that the username is not registered.
login_user_not_found(i, username, password) ==
    /\ calls[i].pc = "idle"
    /\ LET user == get_user_by_username(username)
           c == Call("login", NoHeader, username, password, None, None, None, "idle", NoResp)
           resp == IF user.id = None
                   THEN Failure(404, "User not found")
                   ELSE IF ~ verify(password, user.password_hash)
                        THEN InvalidCredentials
                        ELSE TokenOk(create_jwt(user.id))
       IN  /\ calls' = [calls EXCEPT ![i] = Done(c, resp)]
           /\ issued' = IF resp.status = 200 THEN issued \cup {resp.token} ELSE issued
    /\ UNCHANGED <<users, posts, likes, now>>

login(i, username, password) ==
    /\ calls[i].pc = "idle"
    /\ LET user == get_user_by_username(username)
           c == Call("login", NoHeader, username, password, None, None, None, "idle", NoResp)
           resp == IF user.id = None
                   THEN InvalidCredentials
                   ELSE IF ~ verify(password, user.password_hash)
                        THEN InvalidCredentials
                        ELSE TokenOk(create_jwt(user.id))
       IN  /\ calls' = [calls EXCEPT ![i] = Done(c, resp)]
           /\ issued' = IF resp.status = 200 THEN issued \cup {resp.token} ELSE issued
    /\ UNCHANGED <<users, posts, likes, now>>

----------------------------------------------------------------------------
(* handlers.rs: create_post and get_post                                   *)

create_post(i, headers, content) ==
    /\ calls[i].pc = "idle"
    /\ LET auth == extract_user_id(headers)
           c == Call("create_post", headers, None, None, content, None, auth.user_id, "idle", NoResp)
       IN  IF auth.user_id = None
           THEN /\ calls' = [calls EXCEPT ![i] = Done(c, auth.err)]
                /\ posts' = posts
           ELSE \E id \in new_post_ids :
                LET post == Post(id, auth.user_id, content, 0)
                IN  IF Database_create_post_error(post)
                    THEN /\ calls' = [calls EXCEPT ![i] = Done(c, DatabaseError)]
                         /\ posts' = posts
                    ELSE /\ calls' = [calls EXCEPT ![i] = Done(c, PostCreated(post))]
                         /\ posts' = posts \cup {post}
    /\ UNCHANGED <<users, likes, now, issued>>

get_post(i, id) ==
    /\ calls[i].pc = "idle"
    /\ LET post == Database_get_post(id)
           c == Call("get_post", NoHeader, None, None, None, id, None, "idle", NoResp)
       IN  calls' = [calls EXCEPT ![i] =
                        Done(c, IF post = NoPost THEN PostNotFound ELSE PostOk(post))]
    /\ UNCHANGED <<users, posts, likes, now, issued>>

----------------------------------------------------------------------------
(* handlers.rs and db.rs: delete_post                                      *)

\* The handler up to the answer of check_post_ownership.
delete_post(i, headers, id) ==
    /\ calls[i].pc = "idle"
    /\ LET auth == extract_user_id(headers)
           c == Call("delete_post", headers, None, None, None, id, auth.user_id, "idle", NoResp)
       IN  calls' = [calls EXCEPT ![i] =
                        IF auth.user_id = None
                        THEN Done(c, auth.err)
                        ELSE IF ~ check_post_ownership(id, auth.user_id)
                             THEN Done(c, NotFoundOrUnauthorized)
                             ELSE [c EXCEPT !.pc = "delete_likes"]]
    /\ UNCHANGED <<users, posts, likes, now, issued>>

\* A variant that reports success only when more than one row was deleted.
delete_post_execute_more_than_one(i) ==
    /\ calls[i].pc = "delete_likes"
    /\ LET result == Cardinality(deleted_likes(calls[i].id))
       IN  /\ likes' = likes \ deleted_likes(calls[i].id)
           /\ calls' = [calls EXCEPT ![i] =
                           Done(calls[i], IF result > 1 THEN NoContent
                                                        ELSE NotFoundOrUnauthorized)]
    /\ UNCHANGED <<users, posts, now, issued>>

\* DELETE FROM likes WHERE post_id = $1, and the answer made of its row count.
delete_post_execute(i) ==
    /\ calls[i].pc = "delete_likes"
    /\ LET result == Cardinality(deleted_likes(calls[i].id))
       IN  /\ likes' = likes \ deleted_likes(calls[i].id)
           /\ calls' = [calls EXCEPT ![i] =
                           Done(calls[i], IF result > 0 THEN NoContent
                                                        ELSE NotFoundOrUnauthorized)]
    /\ UNCHANGED <<users, posts, now, issued>>

----------------------------------------------------------------------------
(* handlers.rs and db.rs: like_post                                        *)

\* The handler up to the answer of check_post_exists.
like_post(i, headers, id) ==
    /\ calls[i].pc = "idle"
    /\ LET auth == extract_user_id(headers)
           c == Call("like_post", headers, None, None, None, id, auth.user_id, "idle", NoResp)
       IN  calls' = [calls EXCEPT ![i] =
                        IF auth.user_id = None
                        THEN Done(c, auth.err)
                        ELSE IF ~ check_post_exists(id)
                             THEN Done(c, NotFoundOrAlreadyLiked)
                             ELSE [c EXCEPT !.pc = "like_exists"]]
    /\ UNCHANGED <<users, posts, likes, now, issued>>

\* The answer of like_exists.
like_post_like_exists(i) ==
    /\ calls[i].pc = "like_exists"
    /\ calls' = [calls EXCEPT ![i] =
                    IF like_exists(calls[i].id, calls[i].user_id)
                    THEN Done(calls[i], NotFoundOrAlreadyLiked)
                    ELSE [calls[i] EXCEPT !.pc = "insert_like"]]
    /\ UNCHANGED <<users, posts, likes, now, issued>>

\* INSERT INTO likes; an error of the statement leaves through `?`.
like_post_execute(i) ==
    /\ calls[i].pc = "insert_like"
    /\ IF insert_like_error(calls[i].id, calls[i].user_id)
       THEN /\ calls' = [calls EXCEPT ![i] = Done(calls[i], DatabaseError)]
            /\ likes' = likes
       ELSE /\ calls' = [calls EXCEPT ![i] = Done(calls[i], LikeOk)]
            /\ likes' = likes \cup {Like(calls[i].id, calls[i].user_id)}
    /\ UNCHANGED <<users, posts, now, issued>>

----------------------------------------------------------------------------
(* Specifications                                                          *)

UsersNext ==
    \E i \in Procs :
        \/ Release(i)
        \/ \E username \in Usernames, password \in Passwords :
              register(i, username, password)
        \/ \E username \in Usernames, password \in Passwords :
              login(i, username, password)

LikesNext ==
    \E i \in Procs :
        \/ \E headers \in Headers, id \in PostIds : like_post(i, headers, id)
        \/ like_post_like_exists(i)
        \/ like_post_execute(i)

LikeDeleteNext ==
    \E i \in Procs :
        \/ Release(i)
        \/ \E id \in PostIds : get_post(i, id)
        \/ \E headers \in Headers, id \in PostIds : delete_post(i, headers, id)
        \/ delete_post_execute(i)
        \/ \E headers \in Headers, id \in PostIds : like_post(i, headers, id)
        \/ like_post_like_exists(i)
        \/ like_post_execute(i)

PostsStep(i) ==
    \/ Release(i)
    \/ \E headers \in Headers, content \in Contents : create_post(i, headers, content)
    \/ \E id \in PostIds : get_post(i, id)
    \/ \E headers \in Headers, id \in PostIds : delete_post(i, headers, id)
    \/ delete_post_execute(i)
    \/ \E headers \in Headers, id \in PostIds : like_post(i, headers, id)
    \/ like_post_like_exists(i)
    \/ like_post_execute(i)

PostsNext == \E i \in Procs : PostsStep(i)

\* The routes of the Router, and the clock.
Next == UsersNext \/ PostsNext \/ \E t \in Instants : Tick(t)

\* The whole service, from the empty tables that Database::init creates.
Spec == Init /\ [][Next]_vars

\* register and login alone.
SpecUsers == Init /\ [][UsersNext]_vars

\* Two users have registered: the state that two register requests reach
\* from Init.
InitRegistered ==
    /\ users = {User("u1", "alice", hash("pw1")), User("u2", "bob", hash("pw2"))}
    /\ posts = {}
    /\ likes = {}
    /\ calls = [i \in Procs |-> Idle]
    /\ now = Epoch
    /\ issued = {create_jwt("u1"), create_jwt("u2")}

\* The post and like handlers, the users being registered.
SpecPosts == InitRegistered /\ [][PostsNext]_vars

\* One client that waits for each response before its next request: a step
\* is taken in a slot only while every other slot is idle.
Sequential(i) == \A j \in Procs \ {i} : calls[j].pc = "idle"

SeqNext ==
    \E i \in Procs :
        \/ Sequential(i) /\ Release(i)
        \/ \E headers \in Headers, content \in Contents :
              Sequential(i) /\ create_post(i, headers, content)
        \/ \E id \in PostIds : Sequential(i) /\ get_post(i, id)
        \/ \E headers \in Headers, id \in PostIds :
              Sequential(i) /\ delete_post(i, headers, id)
        \/ Sequential(i) /\ delete_post_execute(i)
        \/ \E headers \in Headers, id \in PostIds :
              Sequential(i) /\ like_post(i, headers, id)
        \/ Sequential(i) /\ like_post_like_exists(i)
        \/ Sequential(i) /\ like_post_execute(i)

SpecSeq == InitRegistered /\ [][SeqNext]_vars

\* Each user has a post, nobody has liked anything: the state that two
\* create_post requests reach from InitRegistered.
InitLikes ==
    /\ users = {User("u1", "alice", hash("pw1")), User("u2", "bob", hash("pw2"))}
    /\ posts = {Post("p1", "u1", "hello", 0), Post("p2", "u2", "hello", 0)}
    /\ likes = {}
    /\ calls = [i \in Procs |-> Idle]
    /\ now = Epoch
    /\ issued = {create_jwt("u1"), create_jwt("u2")}

\* Concurrent like, delete and get requests on the posts of InitLikes.
SpecLikeDelete == InitLikes /\ [][LikeDeleteNext]_vars

\* Concurrent like_post requests, each slot serving one request.
SpecLikes == InitLikes /\ [][LikesNext]_vars

\* Tokens are issued by login and presented to create_post while time
\* passes.
TokensNext ==
    \/ \E t \in Instants : Tick(t)
    \/ \E i \in Procs :
        \/ Release(i)
        \/ \E username \in Usernames, password \in Passwords :
              login(i, username, password)
        \/ \E headers \in Headers, content \in Contents :
              create_post(i, headers, content)

SpecTokens == InitRegistered /\ [][TokensNext]_vars

\* A client that keeps the responses it got and sends a request only when
\* no request is being served.
OneAtATime(i) == \A j \in Procs \ {i} : calls[j].pc \in {"idle", "done"}

\* create_post, get_post and delete_post called by a client that keeps the
\* responses it got.
KeepNext ==
    \E i \in Procs :
        \/ Release(i)
        \/ \E headers \in Headers, content \in Contents :
              OneAtATime(i) /\ create_post(i, headers, content)
        \/ \E id \in PostIds : OneAtATime(i) /\ get_post(i, id)
        \/ \E headers \in Headers, id \in PostIds :
              OneAtATime(i) /\ delete_post(i, headers, id)
        \/ delete_post_execute(i)

SpecKeep == InitRegistered /\ [][KeepNext]_vars

\* Every response has been collected: no slot holds one.
Collected == \A j \in Procs : calls[j].pc # "done"

\* The handlers that write to the store, concurrently, from the empty
\* tables.  A response is collected before the next step of any request,
\* which leaves the interleavings of the store statements as they are.
WritesNext ==
    \E i \in Procs :
        \/ Release(i)
        \/ \E username \in Usernames :
              Collected /\ register(i, username, "pw1")
        \/ \E headers \in IssuedHeaders, content \in Contents :
              Collected /\ create_post(i, headers, content)
        \/ \E headers \in IssuedHeaders, id \in PostIds :
              Collected /\ delete_post(i, headers, id)
        \/ Collected /\ delete_post_execute(i)
        \/ \E headers \in IssuedHeaders, id \in PostIds :
              Collected /\ like_post(i, headers, id)
        \/ Collected /\ like_post_like_exists(i)
        \/ Collected /\ like_post_execute(i)

SpecWrites == Init /\ [][WritesNext]_vars

\* The handlers that read the Authorization header, while time
\* passes: tokens are presented before and after they expire.
AuthNext ==
    \/ \E t \in Instants : Tick(t)
    \/ \E i \in Procs :
        \/ Release(i)
        \/ \E headers \in AllHeaders, content \in Contents :
              OneAtATime(i) /\ create_post(i, headers, content)
        \/ \E headers \in AllHeaders, id \in PostIds :
              OneAtATime(i) /\ delete_post(i, headers, id)
        \/ delete_post_execute(i)
        \/ \E headers \in AllHeaders, id \in PostIds :
              OneAtATime(i) /\ like_post(i, headers, id)
        \/ like_post_like_exists(i)
        \/ like_post_execute(i)

SpecAuth == InitRegistered /\ [][AuthNext]_vars

----------------------------------------------------------------------------
(* Properties                                                              *)

\* Slot i sends its response in this step.
Completes(i) == calls[i].pc # "done" /\ calls'[i].pc = "done"

\* The like_post requests of user u on post p.
LikeCalls(u, p) ==
    {i \in Procs : calls[i].op = "like_post" /\ calls[i].user_id = u /\ calls[i].id = p}

\* C1: when the concurrent like_post requests of one user on one existing
\* post have all been answered, exactly one of them was answered with
\* success, every other one with a failure, and the likes table holds the
\* row of that user and post.  (SpecLikes: each slot serves one request, no
\* like exists at the start.)
C1_OneLikeSucceeds ==
    \A u \in UserIds, p \in PostIds :
        LET S == LikeCalls(u, p)
        IN  (S # {} /\ (\E q \in posts : q.id = p) /\ \A i \in S : calls[i].pc = "done")
            => /\ Cardinality({i \in S : calls[i].resp = LikeOk}) = 1
               /\ Cardinality({i \in S : calls[i].resp.status >= 400})
                      = Cardinality(S) - 1
               /\ Cardinality({l \in likes : l.post_id = p /\ l.user_id = u}) = 1

\* Two requests raced: both passed like_exists, one insert was rejected.
C1_Witness ==
    \E i, j \in Procs :
        /\ i # j
        /\ {i, j} \subseteq LikeCalls(calls[i].user_id, calls[i].id)
        /\ calls[i].pc = "done" /\ calls[i].resp = LikeOk
        /\ calls[j].pc = "done" /\ calls[j].resp = DatabaseError
        /\ \A k \in LikeCalls(calls[i].user_id, calls[i].id) : calls[k].pc = "done"

\* C2: a like_post request of an authenticated user on an existing post that
\* is not answered with success is answered "already liked" (406), never
\* with the Database error: the loser of the insert race included.
C2_LoserIsToldAlreadyLiked ==
    \A i \in Procs :
        (/\ calls[i].op = "like_post"
         /\ calls[i].pc = "done"
         /\ calls[i].user_id # None
         /\ calls[i].resp # LikeOk)
        => calls[i].resp = NotFoundOrAlreadyLiked

\* C3: a post whose delete_post request was answered with success does not
\* exist: get_post on its id finds nothing.
C3_DeletedPostIsGone ==
    \A i \in Procs :
        (calls[i].op = "delete_post" /\ calls[i].pc = "done" /\ calls[i].resp = NoContent)
        => /\ ~ \E p \in posts : p.id = calls[i].id
           /\ Database_get_post(calls[i].id) = NoPost

\* C4: a delete_post request of an authenticated user is answered with
\* success exactly when the post exists and the caller owns it, whatever the
\* number of likes of the post.
C4_OwnerDeleteSucceeds ==
    [][\A i \in Procs :
        (Completes(i) /\ calls'[i].op = "delete_post" /\ calls'[i].user_id # None)
        => (calls'[i].resp = NoContent
              <=> \E p \in posts : p.id = calls'[i].id /\ p.user_id = calls'[i].user_id)
      ]_vars

\* C5: no two delete_post requests on the same post are both answered with
\* success.
C5_OneDeleteSucceeds ==
    \A i, j \in Procs :
        (/\ i # j
         /\ calls[i].op = "delete_post" /\ calls[i].pc = "done"
         /\ calls[j].op = "delete_post" /\ calls[j].pc = "done"
         /\ calls[i].id = calls[j].id
         /\ calls[j].user_id # None
         /\ calls[i].resp = NoContent)
        => calls[j].resp = NotFoundOrUnauthorized

\* C6: the likes_count that get_post returns for a post is the number of
\* rows of the likes table for that post.
C6_LikesCountIsRowCount ==
    \A p \in posts :
        Database_get_post(p.id).likes_count
            = Cardinality({l \in likes : l.post_id = p.id})

\* C7: with one request at a time, a like_post request of an authenticated
\* user on an existing post is answered with success and adds the row when
\* the user has not liked the post, and is answered "already liked" (406)
\* and leaves the one row alone when the user has: of two such requests in
\* sequence the first succeeds and the second is rejected.  (SpecSeq)
C7_SecondLikeIsRejected ==
    [][\A i \in Procs :
        (/\ Completes(i)
         /\ calls'[i].op = "like_post"
         /\ calls'[i].user_id # None
         /\ \E p \in posts : p.id = calls'[i].id)
        => LET row == Like(calls'[i].id, calls'[i].user_id)
           IN  IF row \in likes
               THEN calls'[i].resp = NotFoundOrAlreadyLiked /\ likes' = likes
               ELSE calls'[i].resp = LikeOk /\ likes' = likes \cup {row}
      ]_vars

\* The second request of a user on a post has been rejected, the row of the
\* first is there.
C7_Witness ==
    \E i \in Procs :
        /\ calls[i].op = "like_post" /\ calls[i].pc = "done"
        /\ calls[i].resp = NotFoundOrAlreadyLiked
        /\ Like(calls[i].id, calls[i].user_id) \in likes

\* C8: a delete_post request of an authenticated user on an existing post of
\* another user is answered "not found or unauthorized" and changes neither
\* the posts nor the likes: get_post still returns the post.
C8_NonOwnerDeleteIsRejected ==
    [][\A i \in Procs :
        (/\ Completes(i)
         /\ calls'[i].op = "delete_post"
         /\ calls'[i].user_id # None
         /\ \E p \in posts : p.id = calls'[i].id /\ p.user_id # calls'[i].user_id)
        => /\ calls'[i].resp = NotFoundOrUnauthorized
           /\ posts' = posts
           /\ likes' = likes
           /\ \A id \in PostIds :
                 id = calls'[i].id => (Database_get_post(id))' \in posts
      ]_vars

\* A user who is not the owner asked to delete a post that has likes, and was
\* refused.
C8_Witness ==
    \E i \in Procs :
        /\ calls[i].op = "delete_post" /\ calls[i].pc = "done"
        /\ calls[i].resp = NotFoundOrUnauthorized
        /\ calls[i].user_id # None
        /\ \E p \in posts : p.id = calls[i].id /\ p.user_id # calls[i].user_id
        /\ \E l \in likes : l.post_id = calls[i].id

\* C9: in the state that follows the step in which a delete_post request is
\* answered with success, the likes table has no row of that post.
C9_DeleteRemovesLikes ==
    [][\A i \in Procs :
        (Completes(i) /\ calls'[i].op = "delete_post" /\ calls'[i].resp = NoContent)
        => \A l \in likes' : l.post_id # calls'[i].id
      ]_vars

\* A delete was answered with success and the post has no like left.
C9_Witness ==
    \E i \in Procs :
        /\ calls[i].op = "delete_post" /\ calls[i].pc = "done"
        /\ calls[i].resp = NoContent
        /\ \A l \in likes : l.post_id # calls[i].id

\* C10: a register request that fails because the username is taken is
\* answered with an outcome of its own, not with the Database error that a
\* failure of the store is answered with.
C10_DuplicateIsConflict ==
    \A i \in Procs :
        (/\ calls[i].op = "register"
         /\ calls[i].pc = "done"
         /\ \E u \in users : u.username = calls[i].username
         /\ calls[i].resp.status # 201)
        => calls[i].resp # DatabaseError

----------------------------------------------------------------------------
(* Claims C11 to C20                                                       *)

\* The username of a login is not registered.
UnknownUsername(c) == \A u \in users : u.username # c.username

\* The username of a login is registered, with another password.
WrongPassword(c) ==
    \E u \in users :
        u.username = c.username /\ u.password_hash # <<"bcrypt", c.password>>

\* C11: a login with a username that is not registered and a login with a
\* registered username and a wrong password get the same answer, status and
\* body: a login of either kind completes with the answer every failed
\* login before it got, whichever kind that one was.
C11_FailedLoginsAreAlike ==
    [][\A i, j \in Procs :
          (/\ Completes(i)
           /\ calls'[i].op = "login"
           /\ UnknownUsername(calls'[i]) \/ WrongPassword(calls'[i])
           /\ calls[j].pc = "done"
           /\ calls[j].op = "login"
           /\ calls[j].resp.status # 200)
          => /\ calls'[i].resp.status = calls[j].resp.status
             /\ calls'[i].resp.error = calls[j].resp.error
             /\ calls'[i].resp = calls[j].resp]_vars

\* One failed login of each kind has been answered.
C11_Witness ==
    \E i, j \in Procs :
        /\ calls[i].pc = "done" /\ calls[i].op = "login"
        /\ UnknownUsername(calls[i])
        /\ calls[j].pc = "done" /\ calls[j].op = "login"
        /\ WrongPassword(calls[j])

\* C12: a token issued at t expires at t + 24h; it verifies to its user at
\* every time before that instant, and is invalid at that instant and at
\* every later time.
C12_ValidUntilExpiration ==
    \A token \in issued :
        /\ \E u \in users : token.sub = u.id
        /\ token.exp <= now + Validity
        /\ now < token.exp => verify_jwt(token) = token.sub
        /\ now >= token.exp => verify_jwt(token) = None

\* The handlers that call extract_user_id.
AuthOps == {"create_post", "delete_post", "like_post"}

\* Slot i holds the answer to a request that failed authentication.
Unauthenticated(i) ==
    /\ calls[i].pc = "done"
    /\ calls[i].op \in AuthOps
    /\ calls[i].user_id = None

\* C13: requests that fail authentication get the same response, whatever
\* the reason: no header, no Bearer prefix, a malformed token, a bad
\* signature, an expired token.
C13_AuthFailuresAreAlike ==
    \A i, j \in Procs :
        Unauthenticated(i) /\ Unauthenticated(j) => calls[i].resp = calls[j].resp

\* C14: after a create_post that succeeded for user u with some content, a
\* get_post on the returned id answers 200 with a post of that id, that
\* content, owner u and a like count of zero.
C14_GetReturnsCreatedPost ==
    [][\A i, j \in Procs :
          (/\ calls[i].pc = "done"
           /\ calls[i].op = "create_post"
           /\ calls[i].resp.status = 201
           /\ Completes(j)
           /\ calls'[j].op = "get_post"
           /\ calls'[j].id = calls[i].resp.post.id)
          => /\ calls'[j].resp.status = 200
             /\ calls'[j].resp.post.id = calls[i].resp.post.id
             /\ calls'[j].resp.post.content = calls[i].content
             /\ calls'[j].resp.post.user_id = calls[i].headers.token.sub
             /\ calls'[j].resp.post.likes_count = 0]_vars

\* A get_post has answered on the id a create_post returned.
C14_Witness ==
    \E i, j \in Procs :
        /\ calls[i].pc = "done"
        /\ calls[i].op = "create_post"
        /\ calls[i].resp.status = 201
        /\ calls[j].pc = "done"
        /\ calls[j].op = "get_post"
        /\ calls[j].id = calls[i].resp.post.id
        /\ calls[j].resp.status = 200

\* The header carries no token, a string that is no token, a token with a
\* signature not made with JWT_SECRET, or a token presented at or after
\* its expiration instant.
BadHeader(headers) ==
    \/ headers.kind # "bearer"
    \/ ~ headers.token.signed
    \/ now >= headers.token.exp

\* C15: create_post, delete_post and like_post called with a missing,
\* malformed, forged or expired token answer 401 in their first step and
\* leave users, posts and likes as they were.
C15_BadTokenIsUnauthenticated ==
    [][\A i \in Procs :
          (/\ calls[i].pc = "idle"
           /\ calls'[i].pc # "idle"
           /\ calls'[i].op \in AuthOps
           /\ BadHeader(calls'[i].headers))
          => /\ calls'[i].pc = "done"
             /\ calls'[i].resp.status = 401
             /\ UNCHANGED <<users, posts, likes>>]_vars

\* C16: a row of likes is removed only in a step that removes its post: in
\* every step in which a like of post p disappears, p is not a post of the
\* resulting state.
C16_LikesGoWithTheirPost ==
    [][\A l \in likes \ likes' : \A p \in posts' : p.id # l.post_id]_vars

\* Every post is owned by a user, every like is of a post and by a user.
References ==
    /\ \A p \in posts : \E u \in users : u.id = p.user_id
    /\ \A l \in likes :
          /\ \E p \in posts : p.id = l.post_id
          /\ \E u \in users : u.id = l.user_id

\* C17: under any interleaving of register, create_post, like_post and
\* delete_post, every post's owner is a user, every like's post is a post
\* and its user a user, and no (post, user) pair gets a second like: the
\* table holds one row per pair, and a like_post that answers 200 has added
\* a row for a pair that had none.
C17_ReferentialIntegrity ==
    [][/\ References
       /\ References'
       /\ \A i \in Procs :
             (Completes(i) /\ calls'[i].op = "like_post" /\ calls'[i].resp.status = 200)
             => /\ Like(calls'[i].id, calls'[i].user_id) \notin likes
                /\ Like(calls'[i].id, calls'[i].user_id) \in likes'
                /\ Cardinality(likes') = Cardinality(likes) + 1]_vars

\* Two users, two posts of different owners, a post liked by both users and
\* a delete_post about to remove likes.
C17_Witness ==
    /\ Cardinality(users) = 2
    /\ Cardinality({p.user_id : p \in posts}) = 2
    /\ \E l1, l2 \in likes : l1.post_id = l2.post_id /\ l1.user_id # l2.user_id
    /\ \E i \in Procs : calls[i].pc = "delete_likes"

\* Slot j holds the answer to a like_post of an authenticated user on a post
\* id that no post has (no post is ever removed: it had none either when
\* the request was answered).
LikedMissingPost(j) ==
    /\ calls[j].pc = "done"
    /\ calls[j].op = "like_post"
    /\ calls[j].user_id # None
    /\ \A p \in posts : p.id # calls[j].id

\* C18: a like_post with a valid token on a post id that does not exist
\* inserts no like and gets a "not found" answer that differs from the
\* answer given to a like_post of a post the user has already liked.
C18_NotFoundIsNotAlreadyLiked ==
    [][\A i \in Procs :
          /\ (/\ Completes(i)
               /\ calls'[i].op = "like_post"
               /\ calls'[i].user_id # None
               /\ \A p \in posts : p.id # calls'[i].id)
              => /\ likes' = likes
                 /\ calls'[i].resp.status \notin {200, 500}
          /\ \A j \in Procs :
                (/\ Completes(i)
                 /\ calls'[i].op = "like_post"
                 /\ Like(calls'[i].id, calls'[i].user_id) \in likes
                 /\ LikedMissingPost(j))
                => calls'[i].resp # calls[j].resp]_vars

\* The response in slot i carries a token.
GotToken(i) == calls[i].pc = "done" /\ calls[i].resp.token # NoToken

\* C19: login returns a token only when a user with the given username
\* exists and the given password matches the stored hash, and the token
\* verifies to that user's id; whatever register and login calls are made,
\* a token for user u goes only to a caller who registered u or gave u's
\* username and password.
C19_TokenOnlyForCredentials ==
    \A i \in Procs :
        GotToken(i) =>
            /\ \/ calls[i].op = "login" /\ calls[i].resp.status = 200
               \/ calls[i].op = "register" /\ calls[i].resp.status = 201
            /\ \E u \in users :
                  /\ u.username = calls[i].username
                  /\ u.password_hash = <<"bcrypt", calls[i].password>>
                  /\ calls[i].resp.token.sub = u.id
                  /\ calls[i].resp.token.signed
                  /\ verify_jwt(calls[i].resp.token) = u.id

\* A login got a token for a user that another call registered, and a login
\* with that username and another password got none.
C19_Witness ==
    \E i, j \in Procs :
        /\ GotToken(i)
        /\ calls[i].op = "login"
        /\ calls[j].pc = "done"
        /\ calls[j].op = "login"
        /\ calls[j].username = calls[i].username
        /\ calls[j].password # calls[i].password
        /\ ~ GotToken(j)

\* C20: an authenticated call that returns an error leaves users, posts and
\* likes as they were, whatever the other requests do meanwhile: the step
\* that answers with an error changes no table, and neither does a step of a
\* request that is not answered yet.
C20_ErrorsChangeNothing ==
    [][\A i \in Procs :
          /\ (Completes(i) /\ calls'[i].user_id # None /\ calls'[i].resp.status >= 400)
              => UNCHANGED <<users, posts, likes>>
          /\ (Completes(i) /\ calls'[i].op = "register" /\ calls'[i].resp.status >= 400)
              => UNCHANGED <<users, posts, likes>>
          /\ (calls'[i] # calls[i] /\ calls'[i].pc \notin {"idle", "done"})
              => UNCHANGED <<users, posts, likes>>]_vars

\* A like_post was answered 500 after its INSERT was refused, and a
\* delete_post is about to run a DELETE that removes no row.
C20_Witness ==
    \E i, j \in Procs :
        /\ calls[i].pc = "done"
        /\ calls[i].op = "like_post"
        /\ calls[i].resp.status = 500
        /\ calls[j].pc = "delete_likes"
        /\ \A l \in likes : l.post_id # calls[j].id

====
